---- MODULE Spec2Model ----
(***************************************************************************)
(* Model of the single-threaded echo-on-newline server of src/src/mio.rs:  *)
(* the State machine (Reading / Writing / Closed), Connection::read and    *)
(* Connection::write, the connection slab and the Pong::ready handler.     *)
(* One action is one whole run of a handler of the event loop; the peers   *)
(* (clients) and the kernel sockets are the environment.                   *)
(***************************************************************************)
EXTENDS Integers, Sequences, FiniteSets, TLC

\* ------------------------------------------------------------------ bounds
\* Capacity of the slab (1024 in the program, mio.rs:222), scaled down.
Capacity == 2
\* Number of bytes the client of a server with a single slot sends in all.
MaxBytes == 4
\* Number of bytes the clients of a server with Capacity slots send in all.
TableBytes == 2
\* Number of connections that can wait in the listener's backlog at once.
MaxBacklog == 2

\* The workloads checked: one connection at a time that carries up to
\* MaxBytes bytes, and Capacity connections that share TableBytes bytes.
Workloads == {[cap |-> 1, bytes |-> MaxBytes], [cap |-> Capacity, bytes |-> TableBytes]}

\* ------------------------------------------------------- program constants
\* Token of the listener (mio.rs:12).
SERVER == 0
\* Faulty variant of the slab's first token: the listener's token.
SlabOffset_Zero == SERVER
\* First token of the slab, Slab::new_starting_at(mio::Token(1), ..) (mio.rs:222).
SlabOffset == 1
\* The line terminator b'\n' (mio.rs:51).
NL == 10
\* The bytes clients send: the terminator and one ordinary byte ('a').
Bytes == {NL, 97}

Tokens == 0 .. Capacity

\* The philosophers of src/src/main.rs, by their index in the vector of main
\* (main.rs:102-108), and the seats and forks of Table::new(philosophers.len()).
NumPhilosophers == 5
Philosophers == 0 .. NumPhilosophers - 1
Seats == 0 .. NumPhilosophers - 1

\* Faulty variant of left_handed: nobody is left-handed.
left_handed_nobody(p) == FALSE

\* Philosopher::left_handed: true for the first philosopher only (main.rs:103).
left_handed(p) == p = 0

\* No thread (for a mutex), no seat (for a philosopher).
Nobody == -1

\* ------------------------------------------------------------- enum State
Reading(buf) == [kind |-> "Reading", buf |-> buf, pos |-> 0, limit |-> 0]
\* Take<Cursor<Vec<u8>>>: the vector, the cursor position, the Take limit left.
Writing(buf, pos, limit) == [kind |-> "Writing", buf |-> buf, pos |-> pos, limit |-> limit]
Closed == [kind |-> "Closed", buf |-> <<>>, pos |-> 0, limit |-> 0]

\* A value standing for a panic of the accessor ("Connection not readable").
Panicked == [kind |-> "Panic", buf |-> <<>>, pos |-> 0, limit |-> 0]

Min(a, b) == IF a < b THEN a ELSE b

Drop(s, n) == SubSeq(s, n + 1, Len(s))
Take(s, n) == SubSeq(s, 1, n)

\* iter().position(|b| *b == b'\n'): 0-based index of the first terminator, -1 for None.
RECURSIVE PositionFrom(_, _)
PositionFrom(buf, i) ==
    IF i > Len(buf) THEN -1
    ELSE IF buf[i] = NL THEN i - 1
    ELSE PositionFrom(buf, i + 1)

position(buf) == PositionFrom(buf, 1)

\* State::transition_to_writing: the whole vector moves under a fresh cursor,
\* limited to the first pos bytes.
transition_to_writing(s, pos) ==
    IF s.kind = "Reading" THEN Writing(s.buf, 0, pos) ELSE Panicked

\* Faulty variant of try_transition_to_writing: the terminator is left out of
\* the writable range.
try_transition_to_writing_short(s) ==
    IF s.kind # "Reading" THEN Panicked
    ELSE IF position(s.buf) >= 0 THEN transition_to_writing(s, position(s.buf))
    ELSE s

\* State::try_transition_to_writing
try_transition_to_writing(s) ==
    IF s.kind # "Reading" THEN Panicked
    ELSE IF position(s.buf) >= 0 THEN transition_to_writing(s, position(s.buf) + 1)
    ELSE s

\* Take::remaining / has_remaining over the cursor.
remaining(s) == Min(Len(s.buf) - s.pos, s.limit)
has_remaining(s) == remaining(s) > 0

\* Faulty variant of advance: the cursor moves, the limit is not reduced.
advance_nolimit(s, cnt) == Writing(s.buf, s.pos + Min(cnt, s.limit), s.limit)

\* Take::advance: the cursor moves and the limit shrinks by the same amount.
advance(s, cnt) == Writing(s.buf, s.pos + Min(cnt, s.limit), s.limit - Min(cnt, s.limit))

\* Faulty variants of try_transition_to_reading: the bytes after the flushed
\* range are lost; the flushed bytes are not removed; the leftover bytes are
\* not searched for a terminator.
try_transition_to_reading_lose(s) ==
    IF s.kind # "Writing" THEN Panicked
    ELSE IF ~has_remaining(s) THEN Reading(<<>>) ELSE s

try_transition_to_reading_keep(s) ==
    IF s.kind # "Writing" THEN Panicked
    ELSE IF ~has_remaining(s) THEN try_transition_to_writing(Reading(s.buf)) ELSE s

try_transition_to_reading_nochain(s) ==
    IF s.kind # "Writing" THEN Panicked
    ELSE IF ~has_remaining(s) THEN Reading(Drop(s.buf, s.pos)) ELSE s

\* Faulty variant of try_transition_to_reading: one byte too many is removed
\* from the front of the vector.
try_transition_to_reading_skip(s) ==
    IF s.kind # "Writing" THEN Panicked
    ELSE IF ~has_remaining(s)
         THEN try_transition_to_writing(Reading(Drop(s.buf, s.pos + 1)))
         ELSE s

\* State::try_transition_to_reading
try_transition_to_reading(s) ==
    IF s.kind # "Writing" THEN Panicked
    ELSE IF ~has_remaining(s)
         THEN try_transition_to_writing(Reading(Drop(s.buf, s.pos)))
         ELSE s

\* Faulty variant of is_closed: a closed connection is never recognised.
is_closed_never(s) == FALSE

\* State::is_closed, Connection::is_closed
is_closed(s) == s.kind = "Closed"

\* Faulty variant of get_event_set: the two readiness kinds are exchanged.
get_event_set_swapped(s) ==
    CASE s.kind = "Reading" -> "writable"
      [] s.kind = "Writing" -> "readable"
      [] OTHER -> "none"

\* Connection::get_event_set
get_event_set(s) ==
    CASE s.kind = "Reading" -> "readable"
      [] s.kind = "Writing" -> "writable"
      [] OTHER -> "none"

\* ------------------------------------------------------------- Connection
\* The result of a handler of a connection: the new state, the bytes handed
\* to the socket, the number of calls of reregister, whether it panicked.
Result(state, out, rereg, panic) ==
    [state |-> state, out |-> out, rereg |-> rereg, panic |-> panic]

\* Faulty variants of the end-of-stream branch: the buffer is dropped and the
\* connection closed at once; the closed connection is re-registered.
read_eof_drop(s) == Result(Closed, <<>>, 0, FALSE)

read_eof_rearm(s) ==
    IF Len(s.buf) > 0
    THEN Result(transition_to_writing(s, Len(s.buf)), <<>>, 1, FALSE)
    ELSE Result(Closed, <<>>, 1, FALSE)

\* Connection::read, branch Ok(Some(0))
read_eof(s) ==
    IF Len(s.buf) > 0
    THEN Result(transition_to_writing(s, Len(s.buf)), <<>>, 1, FALSE)
    ELSE Result(Closed, <<>>, 0, FALSE)

\* Connection::read, branch Ok(Some(_)): the bytes are already appended.
read_data(s) == Result(try_transition_to_writing(s), <<>>, 1, FALSE)

\* Faulty variant of the would-block branch: reregister is forgotten.
read_wouldblock_norearm(s) == Result(s, <<>>, 0, FALSE)

\* Connection::read, branch Ok(None)
read_wouldblock(s) == Result(s, <<>>, 1, FALSE)

\* Connection::read, branch Err(e)
read_err(s) == Result(s, <<>>, 0, TRUE)

\* Connection::read: try_read_buf appends what the socket delivered to the
\* Reading buffer, then the outcome selects the branch.
read(s, res) ==
    IF s.kind # "Reading" THEN Result(s, <<>>, 0, TRUE)
    ELSE CASE res.tag = "data" -> read_data(Reading(s.buf \o res.bytes))
           [] res.tag = "eof" -> read_eof(s)
           [] res.tag = "wouldblock" -> read_wouldblock(s)
           [] OTHER -> read_err(s)

\* Connection::write, branch Ok(Some(_)): try_write_buf advanced the buffer by n.
write_some(s, n) ==
    Result(try_transition_to_reading(advance(s, n)),
           SubSeq(s.buf, s.pos + 1, s.pos + n), 1, FALSE)

\* Faulty variant of the would-block branch: the cursor is put back to the
\* start of the vector.
write_wouldblock_rewind(s) == Result(Writing(s.buf, 0, s.pos + s.limit), <<>>, 1, FALSE)

\* Connection::write, branch Ok(None)
write_wouldblock(s) == Result(s, <<>>, 1, FALSE)

\* Variant of the error branch that closes the connection instead of panicking.
write_err_close(s) == Result(Closed, <<>>, 0, FALSE)

\* Connection::write, branch Err(e)
write_err(s) == Result(s, <<>>, 0, TRUE)

\* Connection::write
write(s, res) ==
    IF s.kind # "Writing" THEN Result(s, <<>>, 0, TRUE)
    ELSE CASE res.tag = "wrote" -> write_some(s, res.n)
           [] res.tag = "wouldblock" -> write_wouldblock(s)
           [] OTHER -> write_err(s)

\* Connection::ready: the assertions on the event set and the dispatch on the state.
conn_ready(s, events, res) ==
    CASE s.kind = "Reading" ->
            IF "readable" \in events THEN read(s, res) ELSE Result(s, <<>>, 0, TRUE)
      [] s.kind = "Writing" ->
            IF "writable" \in events THEN write(s, res) ELSE Result(s, <<>>, 0, TRUE)
      [] OTHER -> Result(s, <<>>, 0, TRUE)

\* Connection::new
NewConnection(token) == [present |-> TRUE, token |-> token, state |-> Reading(<<>>)]
NoConn == [present |-> FALSE, token |-> 0, state |-> Closed]

\* ------------------------------------------------------------------ state
VARIABLES
    conns,        \* Pong.connections: token -> Connection, NoConn for a vacant entry
    free,         \* the free list of the slab: indices, next one to hand out first
    armed,        \* event loop: the readiness kind each token is armed for (oneshot)
    inflight,     \* socket: bytes sent by the peer and not yet read by the server
    peerClosed,   \* socket: the peer has shut down its sending side
    sent,         \* history: every byte the peer of the token's live connection has sent
    echoed,       \* history: every byte the server has written to that connection's socket
    status,       \* history: "unused", "open", "closed" (removed by the server)
    backlog,      \* listener: connections pending, not yet accepted
    listenerReady,\* event loop: a readiness notification of the listener is pending
    capacity,     \* the capacity the slab was built with
    budget,       \* number of bytes the clients have yet to send
    crashed,      \* the process has panicked
    running,      \* the event loop has not been shut down
    pipelined,    \* history: the latest read of the token delivered two terminators or more
    last,         \* what the handler run by the latest step did; Idle after a step of a peer
    pc,           \* main.rs: where each philosopher thread stands in Philosopher::eat
    seat,         \* main.rs: the index of the Seat each philosopher holds, Nobody for none
    seats,        \* main.rs: Table.seats, the vector of taken flags
    forks,        \* main.rs: Table.forks, for each mutex the thread that holds it
    seatsLock     \* main.rs: the thread that holds the mutex of Table.seats

\* The variables of the echo server and those of the philosophers.
serverVars == <<conns, free, armed, inflight, peerClosed, sent, echoed, status,
                backlog, listenerReady, capacity, budget, crashed, running, pipelined, last>>

philVars == <<pc, seat, seats, forks, seatsLock>>

vars == <<conns, free, armed, inflight, peerClosed, sent, echoed, status,
          backlog, listenerReady, capacity, budget, crashed, running, pipelined, last,
          pc, seat, seats, forks, seatsLock>>

\* op: the handler ("accept", "read", "write"); token: the token it ran for;
\* tag: the outcome of the socket call; rereg: the number of calls of reregister;
\* removed: the connection was removed from the slab; reused: the token handed
\* out by the slab had been used by an earlier connection; sent, echoed: when
\* the connection was removed, all its peer had sent and all it was sent back.
Last(op, token, tag, rereg, removed, reused) ==
    [op |-> op, token |-> token, tag |-> tag, rereg |-> rereg,
     removed |-> removed, reused |-> reused, sent |-> <<>>, echoed |-> <<>>]

Idle == Last("none", 0, "none", 0, FALSE, FALSE)

\* Slab::count
count(cs) == Cardinality({t \in Tokens : cs[t].present})

\* main of main.rs before the threads run: Table::new, nobody seated, every
\* mutex free.
TableNew ==
    /\ pc = [p \in Philosophers |-> "sit"]
    /\ seat = [p \in Philosophers |-> Nobody]
    /\ seats = [i \in Seats |-> FALSE]
    /\ forks = [i \in Seats |-> Nobody]
    /\ seatsLock = Nobody

\* Pong::new and main: an empty slab of Capacity entries, the listener registered.
Init ==
    /\ TableNew
    /\ conns = [t \in Tokens |-> NoConn]
    /\ \E w \in Workloads : capacity = w.cap /\ budget = w.bytes
    /\ free = [i \in 1 .. capacity |-> i - 1]
    /\ armed = [t \in Tokens |-> "none"]
    /\ inflight = [t \in Tokens |-> <<>>]
    /\ peerClosed = [t \in Tokens |-> FALSE]
    /\ sent = [t \in Tokens |-> <<>>]
    /\ echoed = [t \in Tokens |-> <<>>]
    /\ status = [t \in Tokens |-> "unused"]
    /\ backlog = 0
    /\ listenerReady = FALSE
    /\ crashed = FALSE
    /\ running = TRUE
    /\ pipelined = [t \in Tokens |-> FALSE]
    /\ last = Idle

Alive == running /\ ~crashed

\* ------------------------------------------------------------ environment
\* A client connects: the connection waits in the listener's backlog and the
\* listener becomes readable (edge).
ClientConnect ==
    /\ Alive
    /\ UNCHANGED philVars
    /\ backlog < MaxBacklog
    /\ backlog' = backlog + 1
    /\ listenerReady' = TRUE
    /\ UNCHANGED <<conns, free, armed, inflight, peerClosed, sent, echoed, status,
                   capacity, budget, crashed, running, pipelined>>
    /\ last' = Idle

\* A pending connection goes away before it is accepted.
ClientAbort ==
    /\ Alive
    /\ UNCHANGED philVars
    /\ backlog > 0
    /\ backlog' = backlog - 1
    /\ UNCHANGED <<conns, free, armed, inflight, peerClosed, sent, echoed, status,
                   listenerReady, capacity, budget, crashed, running, pipelined>>
    /\ last' = Idle

\* The peer of an accepted connection sends one byte.
ClientSend(t, b) ==
    /\ Alive
    /\ UNCHANGED philVars
    /\ conns[t].present
    /\ ~peerClosed[t]
    /\ budget > 0
    /\ budget' = budget - 1
    /\ inflight' = [inflight EXCEPT ![t] = Append(@, b)]
    /\ sent' = [sent EXCEPT ![t] = Append(@, b)]
    /\ UNCHANGED <<conns, free, armed, peerClosed, echoed, status, backlog,
                   listenerReady, capacity, crashed, running, pipelined>>
    /\ last' = Idle

\* The peer of an accepted connection shuts down its sending side.
ClientClose(t) ==
    /\ Alive
    /\ UNCHANGED philVars
    /\ conns[t].present
    /\ ~peerClosed[t]
    /\ peerClosed' = [peerClosed EXCEPT ![t] = TRUE]
    /\ UNCHANGED <<conns, free, armed, inflight, sent, echoed, status, backlog,
                   listenerReady, capacity, budget, crashed, running, pipelined>>
    /\ last' = Idle

\* --------------------------------------------------------------- the slab
\* Slab::insert_with: the token of the next free entry, -1 for None (no entry left).
slab_next(fr) == IF Len(fr) = 0 THEN -1 ELSE Head(fr) + SlabOffset

\* Faulty variant of Slab::remove: the token, not the index, goes back.
slab_release_raw(fr, token) == <<token>> \o fr

\* Slab::remove: the entry goes back to the front of the free list.
slab_release(fr, token) == <<token - SlabOffset>> \o fr

\* ------------------------------------------------- Pong::ready, the listener
\* listener.accept() returned Ok(Some(socket)): insert_with, unwrap, register.
AcceptSome ==
    /\ Alive
    /\ UNCHANGED philVars
    /\ listenerReady
    /\ backlog > 0
    /\ listenerReady' = FALSE
    /\ backlog' = backlog - 1
    /\ LET token == slab_next(free) IN
       IF token = -1
       THEN \* insert_with returned None: unwrap() panics
            /\ crashed' = TRUE
            /\ last' = Last("accept", SERVER, "full", 0, FALSE, FALSE)
            /\ UNCHANGED <<conns, free, armed, inflight, peerClosed, sent, echoed,
                           status, pipelined>>
       ELSE /\ conns' = [conns EXCEPT ![token] = NewConnection(token)]
            /\ free' = Tail(free)
            /\ armed' = [armed EXCEPT ![token] = get_event_set(Reading(<<>>))]
            /\ inflight' = [inflight EXCEPT ![token] = <<>>]
            /\ peerClosed' = [peerClosed EXCEPT ![token] = FALSE]
            /\ sent' = [sent EXCEPT ![token] = <<>>]
            /\ echoed' = [echoed EXCEPT ![token] = <<>>]
            /\ status' = [status EXCEPT ![token] = "open"]
            /\ pipelined' = [pipelined EXCEPT ![token] = FALSE]
            /\ last' = Last("accept", token, "some", 0, FALSE, status[token] = "closed")
            /\ UNCHANGED crashed
    /\ UNCHANGED <<capacity, budget, running>>

\* listener.accept() returned Ok(None): nothing pending after all.
AcceptNone ==
    /\ Alive
    /\ UNCHANGED philVars
    /\ listenerReady
    /\ backlog = 0
    /\ listenerReady' = FALSE
    /\ last' = Last("accept", SERVER, "none", 0, FALSE, FALSE)
    /\ UNCHANGED <<conns, free, armed, inflight, peerClosed, sent, echoed, status,
                   backlog, capacity, budget, crashed, running, pipelined>>

\* Faulty variant of the error branch: the failure is ignored, the loop goes on.
AcceptErr_ignore ==
    /\ Alive
    /\ UNCHANGED philVars
    /\ listenerReady
    /\ listenerReady' = FALSE
    /\ last' = Last("accept", SERVER, "err", 0, FALSE, FALSE)
    /\ UNCHANGED <<conns, free, armed, inflight, peerClosed, sent, echoed, status,
                   backlog, capacity, budget, crashed, running, pipelined>>

\* listener.accept() returned Err(e): event_loop.shutdown().
AcceptErr ==
    /\ Alive
    /\ UNCHANGED philVars
    /\ listenerReady
    /\ listenerReady' = FALSE
    /\ running' = FALSE
    /\ last' = Last("accept", SERVER, "err", 0, FALSE, FALSE)
    /\ UNCHANGED <<conns, free, armed, inflight, peerClosed, sent, echoed, status,
                   backlog, capacity, budget, crashed, pipelined>>

\* ----------------------------------------------- Pong::ready, a connection
\* What the socket answers to try_read_buf in the current state of the socket:
\* a failure, some of the bytes in flight, end of stream, or would-block.
ReadOutcomes(t) ==
    {[tag |-> "err", bytes |-> <<>>, n |-> 0]} \cup
    (IF Len(inflight[t]) > 0
     THEN {[tag |-> "data", bytes |-> Take(inflight[t], n), n |-> n] :
              n \in 1 .. Len(inflight[t])}
     ELSE IF peerClosed[t]
          THEN {[tag |-> "eof", bytes |-> <<>>, n |-> 0]}
          ELSE {[tag |-> "wouldblock", bytes |-> <<>>, n |-> 0]})

\* What the socket answers to try_write_buf: it takes any part of the bytes
\* offered, or none (would-block), or fails.
WriteOutcomes(s) ==
    {[tag |-> "err", bytes |-> <<>>, n |-> 0],
     [tag |-> "wouldblock", bytes |-> <<>>, n |-> 0]} \cup
    {[tag |-> "wrote", bytes |-> <<>>, n |-> n] : n \in 0 .. remaining(s)}

Outcomes(t) ==
    IF conns[t].state.kind = "Writing" THEN WriteOutcomes(conns[t].state)
    ELSE ReadOutcomes(t)

OpOf(s) == IF s.kind = "Writing" THEN "write" ELSE "read"

\* The number of terminators in a chunk.
RECURSIVE CountNL(_)
CountNL(bytes) ==
    IF Len(bytes) = 0 THEN 0
    ELSE (IF Head(bytes) = NL THEN 1 ELSE 0) + CountNL(Tail(bytes))

\* Pong::ready for a token other than SERVER. The event loop delivers the
\* event the token is armed for and the arm, being oneshot, is spent; the
\* handler forwards the event to the connection (Connection::ready), which
\* re-arms itself by reregister, then removes the connection if it is closed.
ConnEvent(t, res) ==
    /\ Alive
    /\ UNCHANGED philVars
    /\ t # SERVER
    /\ armed[t] # "none"
    /\ conns[t].present
    /\ res \in Outcomes(t)
    /\ LET c == conns[t]
           r == conn_ready(c.state, {armed[t]}, res)
       IN IF r.panic \/ r.state.kind = "Panic"
          THEN /\ crashed' = TRUE
               /\ last' = Last(OpOf(c.state), t, res.tag, r.rereg, FALSE, FALSE)
               /\ UNCHANGED <<conns, free, armed, inflight, echoed, status, pipelined,
                              sent, peerClosed>>
          ELSE /\ UNCHANGED crashed
               /\ inflight' = [inflight EXCEPT ![t] =
                                  IF res.tag = "data" THEN Drop(@, res.n) ELSE @]
               /\ armed' = [armed EXCEPT ![t] =
                               IF r.rereg > 0 THEN get_event_set(r.state) ELSE "none"]
               /\ IF is_closed(r.state)
                  THEN \* connections.remove(token): the socket is dropped with it
                       /\ conns' = [conns EXCEPT ![t] = NoConn]
                       /\ free' = slab_release(free, t)
                       /\ status' = [status EXCEPT ![t] = "closed"]
                       /\ echoed' = [echoed EXCEPT ![t] = <<>>]
                       /\ sent' = [sent EXCEPT ![t] = <<>>]
                       /\ peerClosed' = [peerClosed EXCEPT ![t] = FALSE]
                       /\ pipelined' = [pipelined EXCEPT ![t] = FALSE]
                       /\ last' = [Last(OpOf(c.state), t, res.tag, r.rereg, TRUE, FALSE)
                                     EXCEPT !.sent = sent[t], !.echoed = echoed[t] \o r.out]
                  ELSE /\ conns' = [conns EXCEPT ![t] = [c EXCEPT !.state = r.state]]
                       /\ echoed' = [echoed EXCEPT ![t] = @ \o r.out]
                       /\ pipelined' = [pipelined EXCEPT ![t] =
                              IF res.tag = "data" THEN CountNL(res.bytes) >= 2 ELSE @]
                       /\ last' = Last(OpOf(c.state), t, res.tag, r.rereg, FALSE, FALSE)
                       /\ UNCHANGED <<free, status, sent, peerClosed>>
    /\ UNCHANGED <<backlog, listenerReady, capacity, budget, running>>

Next ==
    \/ ClientConnect
    \/ ClientAbort
    \/ \E t \in Tokens, b \in Bytes : ClientSend(t, b)
    \/ \E t \in Tokens : ClientClose(t)
    \/ AcceptSome
    \/ AcceptNone
    \/ AcceptErr
    \/ \E t \in Tokens : \E res \in Outcomes(t) : ConnEvent(t, res)

Spec == Init /\ [][Next]_vars

\* ------------------------------------------------ runs without socket faults
\* A run of the connection handler for token t whose socket call makes
\* progress: a read that delivers bytes or end of stream, a write that takes
\* at least one byte.
Progress(t) ==
    \E res \in Outcomes(t) :
        /\ res.tag \in {"data", "eof"} \/ (res.tag = "wrote" /\ res.n > 0)
        /\ ConnEvent(t, res)

\* The steps of a run in which no socket call fails.
FairNext ==
    \/ ClientConnect
    \/ ClientAbort
    \/ \E t \in Tokens, b \in Bytes : ClientSend(t, b)
    \/ \E t \in Tokens : ClientClose(t)
    \/ AcceptSome
    \/ AcceptNone
    \/ \E t \in Tokens : \E res \in Outcomes(t) : res.tag # "err" /\ ConnEvent(t, res)

\* The event loop dispatches every event that is pending (EventLoop::run),
\* and the socket of a connection that keeps being asked ends up answering:
\* a peer takes bytes written to it, a read finds what is there.
FairSpec ==
    /\ Init /\ [][FairNext]_vars
    /\ WF_vars(AcceptSome)
    /\ WF_vars(AcceptNone)
    /\ \A t \in Tokens : WF_vars(Progress(t))

\* ------------------------------------------- the philosophers of main.rs
\* Seat::neighbor_index
neighbor_index(index) == (index + 1) % NumPhilosophers

\* Philosopher::eat, lines 20-27: the forks locked first and second.
seat_fork_index(p) == IF left_handed(p) THEN neighbor_index(seat[p]) ELSE seat[p]
neighbor_fork_index(p) == IF left_handed(p) THEN seat[p] ELSE neighbor_index(seat[p])

\* seats.iter().position(|&s| s == false): the first free seat, Nobody for None.
first_free(ss) ==
    IF \A i \in Seats : ss[i] THEN Nobody
    ELSE CHOOSE i \in Seats : ~ss[i] /\ \A j \in Seats : j < i => ss[j]

\* Table::sit: the whole body runs under the mutex of seats; with a seat free
\* it is taken and the mutex released on return, with none free the loop
\* spins for ever with the mutex held.
sit(p) ==
    /\ pc[p] = "sit"
    /\ seatsLock = Nobody
    /\ IF first_free(seats) = Nobody
       THEN /\ seatsLock' = p
            /\ pc' = [pc EXCEPT ![p] = "spin"]
            /\ UNCHANGED <<seat, seats>>
       ELSE /\ seats' = [seats EXCEPT ![first_free(seats)] = TRUE]
            /\ seat' = [seat EXCEPT ![p] = first_free(seats)]
            /\ pc' = [pc EXCEPT ![p] = "take_a"]
            /\ UNCHANGED seatsLock
    /\ UNCHANGED forks
    /\ UNCHANGED serverVars

\* Table::take_fork(seat_fork_index), line 29: blocks until the mutex is free.
take_fork_a(p) ==
    /\ pc[p] = "take_a"
    /\ forks[seat_fork_index(p)] = Nobody
    /\ forks' = [forks EXCEPT ![seat_fork_index(p)] = p]
    /\ pc' = [pc EXCEPT ![p] = "take_b"]
    /\ UNCHANGED <<seat, seats, seatsLock>>
    /\ UNCHANGED serverVars

\* Table::take_fork(neighbor_fork_index), line 31; the philosopher then eats.
take_fork_b(p) ==
    /\ pc[p] = "take_b"
    /\ forks[neighbor_fork_index(p)] = Nobody
    /\ forks' = [forks EXCEPT ![neighbor_fork_index(p)] = p]
    /\ pc' = [pc EXCEPT ![p] = "eating"]
    /\ UNCHANGED <<seat, seats, seatsLock>>
    /\ UNCHANGED serverVars

\* End of Philosopher::eat: the locals are dropped in the reverse order of
\* their declaration, _fork_b first.
drop_fork_b(p) ==
    /\ pc[p] = "eating"
    /\ forks' = [forks EXCEPT ![neighbor_fork_index(p)] = Nobody]
    /\ pc' = [pc EXCEPT ![p] = "drop_a"]
    /\ UNCHANGED <<seat, seats, seatsLock>>
    /\ UNCHANGED serverVars

\* Then _fork_a.
drop_fork_a(p) ==
    /\ pc[p] = "drop_a"
    /\ forks' = [forks EXCEPT ![seat_fork_index(p)] = Nobody]
    /\ pc' = [pc EXCEPT ![p] = "drop_seat"]
    /\ UNCHANGED <<seat, seats, seatsLock>>
    /\ UNCHANGED serverVars

\* Then seat, Seat::drop: under the mutex of seats the flag is cleared; the
\* thread ends.
drop_seat(p) ==
    /\ pc[p] = "drop_seat"
    /\ seatsLock = Nobody
    /\ seats' = [seats EXCEPT ![seat[p]] = FALSE]
    /\ seat' = [seat EXCEPT ![p] = Nobody]
    /\ pc' = [pc EXCEPT ![p] = "done"]
    /\ UNCHANGED <<forks, seatsLock>>
    /\ UNCHANGED serverVars

\* The steps of philosopher p.
eat(p) ==
    \/ sit(p)
    \/ take_fork_a(p)
    \/ take_fork_b(p)
    \/ drop_fork_b(p)
    \/ drop_fork_a(p)
    \/ drop_seat(p)

PhilNext ==
    \/ \E p \in Philosophers : sit(p)
    \/ \E p \in Philosophers : take_fork_a(p)
    \/ \E p \in Philosophers : take_fork_b(p)
    \/ \E p \in Philosophers : drop_fork_b(p)
    \/ \E p \in Philosophers : drop_fork_a(p)
    \/ \E p \in Philosophers : drop_seat(p)

\* main of main.rs: the table, one thread per philosopher, each scheduled
\* again and again until it ends; the echo server is not running.
PhilInit == Init /\ capacity = Capacity

PhilSpec ==
    /\ PhilInit /\ [][PhilNext]_vars
    /\ \A p \in Philosophers : WF_vars(eat(p))

\* ------------------------------------------------------- derived histories
\* The bytes the server has read from the socket of token t so far.
Received(t) == Take(sent[t], Len(sent[t]) - Len(inflight[t]))

\* The bytes the connection of token t still holds: read and not yet written.
Held(t) == IF conns[t].present THEN Drop(conns[t].state.buf, conns[t].state.pos) ELSE <<>>

\* The live connections.
Live == {t \in Tokens : conns[t].present}

\* The bytes of a Writing state that lie after its writable range.
Leftover(s) == Drop(s.buf, s.pos + s.limit)

\* The unwritten part of the writable range of a Writing state.
Range(s) == SubSeq(s.buf, s.pos + 1, s.pos + s.limit)

\* The step is a run of the connection handler for token t that read end of stream.
EofRead(t) ==
    /\ conns[t].present /\ conns[t].state.kind = "Reading"
    /\ last'.op = "read" /\ last'.token = t /\ last'.tag = "eof"

\* The step is a run of the connection handler for token t in which the
\* socket took all that was left of the writable range.
FlushOf(t) ==
    /\ conns[t].present /\ conns[t].state.kind = "Writing"
    /\ last'.op = "write" /\ last'.token = t /\ last'.tag = "wrote"
    /\ conns'[t].present
    /\ Len(echoed'[t]) = Len(echoed[t]) + conns[t].state.limit

\* ------------------------------------------------------------------ claims

\* C1: when a connection is closed (removed from the table), the bytes written
\* back to its peer are exactly the bytes the peer sent, in order, whatever the
\* read chunks and whatever the write outcomes (full, partial, would-block) were.
C1_RoundTrip == last.removed => last.echoed = last.sent

C1_Witness == last.removed /\ last.sent = <<97, NL, 97>>

C3_FlushOnClose ==
    [][\A t \in Tokens :
         /\ (EofRead(t) /\ Len(conns[t].state.buf) > 0)
            => /\ conns'[t].present
               /\ conns'[t].state = Writing(conns[t].state.buf, 0, Len(conns[t].state.buf))
               /\ armed'[t] = "writable"
               /\ echoed'[t] = echoed[t]
         /\ (conns[t].present /\ ~conns'[t].present)
            => /\ Held(t) = <<>>
               /\ last'.echoed = Received(t)]_vars

C3_Witness == last.removed /\ last.sent = <<97, 97>> /\ last.echoed = <<97, 97>>

\* C4: a read of end of stream with an empty Reading buffer closes the
\* connection in that handler: nothing is written, it is not re-registered,
\* and the same run of the server's handler removes it from the table.
C4_ImmediateClose ==
    [][\A t \in Tokens :
         (EofRead(t) /\ Len(conns[t].state.buf) = 0)
         => /\ ~conns'[t].present
            /\ status'[t] = "closed"
            /\ armed'[t] = "none"
            /\ last'.rereg = 0
            /\ last'.removed
            /\ last'.echoed = echoed[t]
            /\ slab_next(free') = t
            /\ ~crashed']_vars

C4_Witness ==
    /\ last.op = "read" /\ last.tag = "eof" /\ last.removed
    /\ last.sent = <<>> /\ last.echoed = <<>>

\* A single terminated line: non-empty, its only terminator is its last byte.
IsLine(bytes) == Len(bytes) > 0 /\ position(bytes) = Len(bytes) - 1

\* C5: once the single terminated line a client sent has been written back in
\* full (and the client has not closed), what was echoed is that line and the
\* connection is in the table, Reading with an empty buffer, armed for
\* read-readiness.
C5_SingleLine ==
    \A t \in Tokens :
        (IsLine(sent[t]) /\ ~peerClosed[t] /\ Len(echoed[t]) >= Len(sent[t]))
        => /\ echoed[t] = sent[t]
           /\ conns[t].present
           /\ conns[t].state = Reading(<<>>)
           /\ armed[t] = "readable"

C5_Witness ==
    \E t \in Tokens :
        /\ sent[t] = <<97, NL>> /\ echoed[t] = <<97, NL>> /\ ~peerClosed[t]
        /\ last.op = "write" /\ last.token = t

\* C6 as stated: accepting a connection when the table is full rejects that
\* connection and does not crash the server.
C6_CapacityRejects == (last.op = "accept" /\ last.tag = "full") => ~crashed

\* C7: every run of the connection handler that ends without a socket error
\* ends in exactly one re-registration (the connection stays in the table,
\* armed for what its state wants) or exactly one removal (the connection is
\* gone and not armed), never both, never neither.
C7_RearmDiscipline ==
    (last.op \in {"read", "write"} /\ last.tag # "err")
    => \/ /\ last.rereg = 1 /\ ~last.removed
          /\ conns[last.token].present
          /\ armed[last.token] = get_event_set(conns[last.token].state)
          /\ armed[last.token] # "none"
       \/ /\ last.rereg = 0 /\ last.removed
          /\ ~conns[last.token].present
          /\ armed[last.token] = "none"

C7_Witness ==
    /\ last.op = "write" /\ last.tag = "wrote" /\ last.rereg = 1
    /\ conns[last.token].state.kind = "Writing"
    /\ conns[last.token].state.pos > 0

\* C8: token 0 is never given to a connection; a live connection's token is
\* the key it is stored under, so no two live connections share a token; no
\* live token is on the free list; and the token freed by a removal is the
\* next one the table hands out.
C8_HandleInvariant ==
    /\ ~conns[SERVER].present
    /\ \A t \in Live :
          /\ conns[t].token = t
          /\ t \in 1 .. capacity
          /\ \A i \in 1 .. Len(free) : free[i] + SlabOffset # t
    /\ \A t1, t2 \in Live : t1 # t2 => conns[t1].token # conns[t2].token
    /\ \A i, j \in 1 .. Len(free) : i # j => free[i] # free[j]
    /\ Cardinality(Live) + Len(free) = capacity
    /\ last.removed => slab_next(free) = last.token

C8_Witness ==
    /\ last.op = "accept" /\ last.reused
    /\ conns[last.token].present
    /\ Cardinality(Live) = 2

\* The shape of a state between two handlers.
WellFormed(s) ==
    \/ /\ s.kind = "Reading" /\ s.pos = 0 /\ s.limit = 0
    \/ /\ s.kind = "Writing" /\ s.pos >= 0 /\ s.limit > 0
       /\ s.pos + s.limit <= Len(s.buf)

\* C9: between two handlers every connection in the table is Reading or
\* Writing, fully formed (a Writing state has bytes left to write inside its
\* buffer), whatever the outcomes were; a Closed connection is not in the table
\* and is armed for nothing, so no transition leaves Closed.
C9_StateInvariant ==
    /\ \A t \in Tokens :
          /\ conns[t].present => WellFormed(conns[t].state)
          /\ ~conns[t].present => (conns[t] = NoConn /\ armed[t] = "none")
    /\ last.removed => ~conns[last.token].present

C9_Witness ==
    /\ crashed /\ last.tag = "err" /\ last.op = "write"
    /\ conns[last.token].state.kind = "Writing"
    /\ conns[last.token].state.pos > 0

\* C10: a socket error on a read or a write panics the process: that handler
\* re-registers and removes nothing, and once the process has panicked nothing
\* changes any more.
C10_SocketFault ==
    [][/\ crashed => UNCHANGED vars
       /\ (last'.op \in {"read", "write"} /\ last'.tag = "err")
          => /\ crashed'
             /\ last'.rereg = 0 /\ ~last'.removed
             /\ UNCHANGED <<conns, free, armed, echoed, status, inflight>>]_vars

C10_Witness ==
    /\ crashed /\ last.tag = "err" /\ last.op = "read"
    /\ Cardinality(Live) = 2

\* C11: an accept that reports "not ready yet" changes neither the table nor
\* any connection, arms nothing and leaves the loop running; an accept that
\* fails shuts the event loop down, and that handler inserts nothing and
\* registers nothing.
C11_ListenerOutcomes ==
    [][/\ (last'.op = "accept" /\ last'.tag = "none")
          => /\ UNCHANGED <<conns, free, armed, status, inflight, echoed, sent, backlog>>
             /\ running' /\ ~crashed'
       /\ (last'.op = "accept" /\ last'.tag = "err")
          => /\ ~running'
             /\ UNCHANGED <<conns, free, armed, status, backlog>>]_vars

C11_Witness ==
    /\ last.op = "accept" /\ last.tag = "err" /\ ~running
    /\ backlog > 0 /\ Cardinality(Live) = 1 /\ Len(free) = 1

\* The step is a run of the connection handler for token t that read some bytes.
DataRead(t) ==
    /\ conns[t].present /\ conns[t].state.kind = "Reading"
    /\ last'.op = "read" /\ last'.token = t /\ last'.tag = "data"

\* The bytes the step took from the socket of token t.
NewBytes(t) == Take(inflight[t], Len(inflight[t]) - Len(inflight'[t]))

\* C12: after a read that delivered bytes, the buffer is the old buffer
\* followed by the new bytes; if it holds a terminator, the state is Writing
\* over that whole buffer with cursor 0 and a writable range that ends with
\* the first terminator, the bytes after it staying in the buffer; if it holds
\* none, the state is Reading with that buffer.
C12_ReadSplit ==
    [][\A t \in Tokens :
         DataRead(t) =>
           LET whole == conns[t].state.buf \o NewBytes(t)
               nls == {i \in 1 .. Len(whole) : whole[i] = NL}
           IN /\ Len(NewBytes(t)) > 0
              /\ conns'[t].present
              /\ nls = {} => conns'[t].state = Reading(whole)
              /\ nls # {} =>
                    \E p \in nls :
                       /\ \A i \in nls : p <= i
                       /\ conns'[t].state = Writing(whole, 0, p)
                       /\ Range(conns'[t].state) = Take(whole, p)
                       /\ Leftover(conns'[t].state) = Drop(whole, p)]_vars

C12_Witness ==
    \E t \in Tokens :
        /\ last.op = "read" /\ last.tag = "data" /\ last.token = t
        /\ conns[t].state = Writing(<<97, NL, 97, NL>>, 0, 2)

\* C13: when a write takes all that was left of the writable range, the
\* buffer of the new state is exactly the bytes that lay after the range; in
\* that same handler, if they hold a terminator the state is Writing over them
\* up to and including their first terminator and the connection is armed for
\* write-readiness, otherwise the state is Reading and it is armed for
\* read-readiness.
C13_WriteDone ==
    [][\A t \in Tokens :
         FlushOf(t) =>
           LET left == Leftover(conns[t].state)
               nls == {i \in 1 .. Len(left) : left[i] = NL}
           IN /\ conns'[t].state.buf = left
              /\ last'.rereg = 1
              /\ nls = {} => /\ conns'[t].state = Reading(left)
                            /\ armed'[t] = "readable"
              /\ nls # {} => /\ \E p \in nls : /\ \A i \in nls : p <= i
                                               /\ conns'[t].state = Writing(left, 0, p)
                            /\ armed'[t] = "writable"]_vars

C13_Witness ==
    \E t \in Tokens :
        /\ last.op = "write" /\ last.tag = "wrote" /\ last.token = t
        /\ echoed[t] = <<97, NL>> /\ sent[t] = <<97, NL, 97>> /\ inflight[t] = <<>>
        /\ conns[t].state = Reading(<<97>>)
        /\ armed[t] = "readable"

\* The number of bytes the step wrote to the socket of token t.
Wrote(t) == Len(echoed'[t]) - Len(echoed[t])

\* The step is a run of the connection handler for token t in which the
\* socket took fewer bytes than were left of the writable range.
PartialWrite(t) ==
    /\ conns[t].present /\ conns[t].state.kind = "Writing"
    /\ last'.op = "write" /\ last'.token = t /\ last'.tag = "wrote"
    /\ conns'[t].present
    /\ Wrote(t) < remaining(conns[t].state)

\* C14: a write that takes k bytes, fewer than remain, leaves the connection
\* Writing over the same bytes with the cursor advanced by k and the range
\* shortened by k, and the k bytes written are the ones that stood at the
\* cursor; and in every state, for every connection in the table, the bytes
\* echoed so far followed by the bytes still held are the bytes read so far.
C14_NoLossNoDup ==
    [][\A t \in Tokens :
         /\ PartialWrite(t) =>
               /\ Wrote(t) >= 0
               /\ conns'[t].state = Writing(conns[t].state.buf,
                                            conns[t].state.pos + Wrote(t),
                                            conns[t].state.limit - Wrote(t))
               /\ echoed'[t] = echoed[t] \o Take(Held(t), Wrote(t))
               /\ armed'[t] = "writable"
         /\ conns'[t].present =>
               echoed'[t] \o Drop(conns'[t].state.buf, conns'[t].state.pos)
                  = Take(sent'[t], Len(sent'[t]) - Len(inflight'[t]))]_vars

C14_Witness ==
    \E t \in Tokens :
        /\ last.op = "write" /\ last.tag = "wrote" /\ last.token = t
        /\ echoed[t] = <<97>>
        /\ conns[t].state = Writing(<<97, NL, 97>>, 1, 1)

\* C15: when the read or the write of a handler reports would-block, the
\* connection keeps its variant, its buffer and its cursor, stays in the
\* table, nothing is written or consumed, and it is armed again, by one
\* reregister, for the readiness kind it was armed for.
C15_WouldBlockFrame ==
    [][\A t \in Tokens :
         (last'.op \in {"read", "write"} /\ last'.token = t /\ last'.tag = "wouldblock")
         => /\ conns[t].present
            /\ conns'[t] = conns[t]
            /\ armed'[t] = armed[t]
            /\ armed'[t] = (IF last'.op = "read" THEN "readable" ELSE "writable")
            /\ last'.rereg = 1 /\ ~last'.removed
            /\ UNCHANGED <<free, status, echoed, inflight, sent, crashed, running>>]_vars

C15_Witness ==
    \E t \in Tokens :
        /\ last.op = "write" /\ last.tag = "wouldblock" /\ last.token = t
        /\ conns[t].state = Writing(<<97, NL, 97>>, 1, 1)
        /\ armed[t] = "writable"

\* The readiness kind a state wants.
Wants(s) ==
    IF s.kind = "Reading" THEN "readable"
    ELSE IF s.kind = "Writing" THEN "writable" ELSE "none"

\* C16: every connection in the table is armed for exactly the readiness kind
\* its state wants, a token with no connection is armed for nothing, and a
\* connection just accepted is Reading with an empty buffer, armed readable;
\* so every event dispatched to a token other than SERVER finds a connection
\* in the table that is Reading for a readable event and Writing for a
\* writable one, never Closed, and the only panics of a connection handler
\* are those of socket errors: the assertions and "Unexpected state" of
\* Connection::ready are never hit.
C16_DispatchMatchesState ==
    [][/\ \A t \in Tokens :
            /\ conns'[t].present => armed'[t] = Wants(conns'[t].state)
            /\ ~conns'[t].present => armed'[t] = "none"
       /\ (last'.op = "accept" /\ last'.tag = "some")
          => /\ conns'[last'.token].state = Reading(<<>>)
             /\ armed'[last'.token] = "readable"
       /\ last'.op \in {"read", "write"}
          => /\ last'.token # SERVER
             /\ conns[last'.token].present
             /\ conns[last'.token].state.kind \in {"Reading", "Writing"}
             /\ armed[last'.token] = Wants(conns[last'.token].state)
             /\ last'.op = (IF armed[last'.token] = "readable" THEN "read" ELSE "write")
             /\ crashed' => last'.tag = "err"]_vars

C16_Witness ==
    \E t, u \in Tokens :
        /\ last.op = "write" /\ last.token = t /\ ~crashed
        /\ conns[t].state.kind = "Writing" /\ armed[t] = "writable"
        /\ conns[u].present /\ conns[u].state.kind = "Reading" /\ armed[u] = "readable"

\* C17: a run of the connection handler for token h changes only the
\* connection of h and, if it became Closed, removes only h; every other
\* connection keeps its state, buffer, cursor, registration, socket contents
\* and token, and no token of another live connection becomes free.
C17_Isolation ==
    [][\A h \in Tokens :
         (last'.op \in {"read", "write"} /\ last'.token = h)
         => /\ \A u \in Tokens \ {h} :
                  /\ conns'[u] = conns[u]
                  /\ armed'[u] = armed[u]
                  /\ inflight'[u] = inflight[u]
                  /\ echoed'[u] = echoed[u]
                  /\ sent'[u] = sent[u]
                  /\ status'[u] = status[u]
                  /\ conns[u].present
                     => \A i \in 1 .. Len(free') : free'[i] + SlabOffset # u
            /\ IF last'.removed
               THEN ~conns'[h].present /\ Len(free') = Len(free) + 1
               ELSE conns'[h].present /\ free' = free
            /\ UNCHANGED <<backlog, listenerReady, running>>]_vars

C17_Witness ==
    \E h, u \in Tokens :
        /\ h # u /\ last.removed /\ last.token = h /\ last.sent = <<NL>>
        /\ conns[u].present /\ conns[u].state = Reading(<<97>>)
        /\ armed[u] = "readable"

\* C18 as stated: with no socket fault, readiness delivered fairly and peers
\* that take what is written to them, every connection whose peer has closed
\* its sending side is eventually removed from the table.
C18_EventualEviction ==
    \A t \in Tokens : (conns[t].present /\ peerClosed[t]) ~> ~conns[t].present

\* The same, but for the runs in which the process panics.
C18_EvictionUnlessPanic ==
    \A t \in Tokens : (conns[t].present /\ peerClosed[t]) ~> (~conns[t].present \/ crashed)

\* The second half of C18: an entry leaves the table only in a run of its own
\* handler in which its state became Closed (end of stream read with an
\* empty buffer).
C18_RemovedOnlyClosed ==
    [][\A t \in Tokens :
         (conns[t].present /\ ~conns'[t].present)
         => /\ last'.op = "read" /\ last'.token = t /\ last'.tag = "eof"
            /\ last'.removed
            /\ conns[t].state = Reading(<<>>)
            /\ is_closed(read(conns[t].state, [tag |-> "eof", bytes |-> <<>>, n |-> 0]).state)]_vars

\* C19 as stated: while the process has not panicked, every connection
\* pending on the listener is eventually taken off the backlog, also when
\* several are pending when one readiness event of the listener is handled.
C19_AcceptProgress == (backlog > 0) ~> (backlog = 0 \/ crashed)

\* Every thread has ended (the joins of main return).
AllDone == \A p \in Philosophers : pc[p] = "done"

\* The forks philosopher p holds.
Holds(p) == {i \in Seats : forks[i] = p}

\* No two philosophers hold the same seat, the flags of seats say who is
\* seated, a fork is held by a seated philosopher and only one of its own
\* two, and nobody spins in Table::sit.
PhilSafe ==
    /\ \A p, q \in Philosophers : (p # q /\ seat[p] # Nobody) => seat[p] # seat[q]
    /\ \A i \in Seats : seats[i] <=> (\E p \in Philosophers : seat[p] = i)
    /\ \A p \in Philosophers :
          /\ seat[p] = Nobody <=> pc[p] \in {"sit", "done"}
          /\ pc[p] # "spin"
          /\ Holds(p) =
                CASE pc[p] \in {"take_b", "drop_a"} -> {seat_fork_index(p)}
                  [] pc[p] = "eating" -> {seat_fork_index(p), neighbor_fork_index(p)}
                  [] OTHER -> {}
          /\ pc[p] = "eating" => Cardinality(Holds(p)) = 2
    /\ seatsLock = Nobody

\* The order in which a thread goes through Philosopher::eat.
EatOrder ==
    {<<"sit", "take_a">>, <<"take_a", "take_b">>, <<"take_b", "eating">>,
     <<"eating", "drop_a">>, <<"drop_a", "drop_seat">>, <<"drop_seat", "done">>}

\* C20: with the five philosophers of main, the first of them left-handed,
\* no two philosophers ever hold the same seat or the same fork, no state
\* short of the end is a deadlock, a thread ends only after it has eaten with
\* both forks and released them and its seat, and in the end every thread has
\* terminated with every fork and every seat free.
C20_Philosophers ==
    /\ [](PhilSafe /\ (AllDone \/ ENABLED PhilNext))
    /\ [][\A p \in Philosophers :
            pc'[p] # pc[p] => <<pc[p], pc'[p]>> \in EatOrder]_vars
    /\ <>[](/\ AllDone
            /\ \A i \in Seats : forks[i] = Nobody /\ ~seats[i])

\* All five are seated, the left-handed one not at seat 0, four hold their
\* first fork and the fifth waits for its first.
C20_Witness ==
    /\ \A p \in Philosophers : pc[p] \in {"take_a", "take_b"}
    /\ Cardinality({p \in Philosophers : pc[p] = "take_b"}) = 4
    /\ \E p \in Philosophers : left_handed(p) /\ seat[p] = 2 /\ pc[p] = "take_b"

====
